---- MODULE Spec2Model ----
(***************************************************************************)
(* The reservation coordinator of big_medicine                              *)
(* (src/big_medicine/core/server/core.py) over a store that offers          *)
(* per-row conditional updates.  The store is the two tables `medicine`     *)
(* (name -> count) and `reservation` (a set of line rows).  Every request   *)
(* handler is a coroutine; each store operation it issues is one step, and  *)
(* steps of different handlers interleave freely.  Every store operation    *)
(* may also raise (a driver or store fault).                                *)
(***************************************************************************)
EXTENDS Integers, Sequences, FiniteSets, TLC

(***************************************************************************)
(* Bounds of the model.                                                     *)
(***************************************************************************)
NumHandlers == 2
MaxRequests == 2
MaxStock == 2
MaxCount == 2
MaxEntries == 2
\* entries carried by all the requests of one run, taken together
MaxLines == 3

Handlers == 1..NumHandlers

\* The medicine names requests can carry.  The medicine table holds "a",
\* and holds "b" in some runs only: there "b" is the name that does not exist.
\* Every medicine is in stock at start-up.
Names == {"a", "b"}
Catalogs ==
    UNION {[dom -> 1..MaxStock] : dom \in {{"a"}, Names}}
Accounts == {"alice", "bob"}
\* handler h serves the client configured with account.name = AccountOf(h)
AccountOf(h) == IF h % 2 = 1 THEN "alice" ELSE "bob"

\* message.py: ResponseType
INFO == "info"
ERROR == "error"
EXCEPTION == "exception"
\* no typed response: the exception left the handler
RAISED == "raised"

\* message.py: MedicineEntry
MedicineEntry(name, count) == [name |-> name, count |-> count]

\* message.py: ResponseItem
ResponseItem(type, msg) == [type |-> type, msg |-> msg]

Entries == {MedicineEntry(n, c) : n \in Names, c \in 1..MaxCount}

\* the entry lists a request can carry
EntryLists == UNION {[1..n -> Entries] : n \in 0..MaxEntries}

\* an optional integer: Python's int | None
None == <<>>
Some(x) == <<x>>

\* uuid.uuid4() draws from a counter; str(uuid) and uuid.UUID(str)
MaxUuid == MaxRequests * (MaxEntries + 1)
UuidStr(u) == "uuid-" \o ToString(u)
IsUuidStr(s) == \E u \in 0..MaxUuid : UuidStr(u) = s
UUID(s) == CHOOSE u \in 0..MaxUuid : UuidStr(u) = s

\* mutant: the generator returns one value over and over
uuid4_constant(n) == 1

\* uuid.uuid4(), n values drawn so far: a value never drawn before
uuid4(n) == n + 1

VARIABLES
    catalog,        \* medicine table: name -> count
    reservation,    \* reservation table: set of line rows
    uuids,          \* number of uuid4() calls so far
    started,        \* number of requests received so far
    lines,          \* number of entries received so far
    pc,             \* per handler: position in its coroutine
    kind,           \* per handler: the route being served
    item,           \* per handler: the decoded request
    pending,        \* per handler: indices of count reads not yet returned
    current_counts, \* per handler: results of get_current_counts
    i,              \* per handler: loop index (CAS loop, then insert loop)
    reservation_id, \* per handler: id the lines are written under
    loaded,         \* per handler: result of retrieve_single_reservation
    response,       \* per handler: the response once pc = "done"
    initial,        \* history: the medicine table at start-up
    before,         \* history: the store when the handler's request arrived
    alone,          \* history: no request was in flight when this one
                    \*          arrived and none has arrived since
    faulted,        \* history: a store operation of this request raised
    replaced,       \* history: reservation ids whose lines an update deleted
    writes,         \* history: write statements this request has issued
    keyspace,       \* config.keyspace: the keyspace the server works in
    keyspaces,      \* the keyspaces that exist in the cluster
    bulk            \* the locals of the bulk upload (utils/db.py)

vars == <<catalog, reservation, uuids, started, lines, pc, kind, item, pending,
          current_counts, i, reservation_id, loaded, response, initial,
          before, alone, faulted, replaced, writes, keyspace, keyspaces,
          bulk>>

\* what no request handler of the reservation routes changes
fixed == <<initial, keyspace, keyspaces, bulk>>

store == <<catalog, reservation>>
locals == <<kind, item, pending, current_counts, i, reservation_id, loaded>>
history == <<fixed, before, alone, faulted, replaced, writes>>

NoItem == [id |-> "", account_name |-> "", entries |-> <<>>]
NoLoaded == [id |-> "", account_name |-> "", entries |-> <<>>]
NoResponse == ResponseItem("", "")
NoBefore == [catalog |-> <<>>, reservation |-> {}]

Active(h) == pc[h] \notin {"idle", "done"}

\* the keyspace the /clean route names
medicines == "medicines"

\* no bulk upload has been started
NoUpload == [main |-> "none"]

Init ==
    /\ catalog \in Catalogs
    /\ reservation = {}
    /\ uuids = 0
    /\ started = 0
    /\ lines = 0
    /\ pc = [h \in Handlers |-> "idle"]
    /\ kind = [h \in Handlers |-> ""]
    /\ item = [h \in Handlers |-> NoItem]
    /\ pending = [h \in Handlers |-> {}]
    /\ current_counts = [h \in Handlers |-> <<>>]
    /\ i = [h \in Handlers |-> 0]
    /\ reservation_id = [h \in Handlers |-> 0]
    /\ loaded = [h \in Handlers |-> NoLoaded]
    /\ response = [h \in Handlers |-> NoResponse]
    /\ initial = catalog
    /\ before = [h \in Handlers |-> NoBefore]
    /\ alone = [h \in Handlers |-> FALSE]
    /\ faulted = [h \in Handlers |-> FALSE]
    /\ replaced = {}
    /\ writes = [h \in Handlers |-> 0]
    /\ keyspace = medicines
    /\ keyspaces = {keyspace}
    /\ bulk = NoUpload

\* A request arrives at handler h: bookkeeping shared by all routes.
Arrive(h, k, it) ==
    /\ pc[h] = "idle"
    /\ started < MaxRequests
    /\ started' = started + 1
    /\ lines + Len(it.entries) <= MaxLines
    /\ lines' = lines + Len(it.entries)
    /\ kind' = [kind EXCEPT ![h] = k]
    /\ item' = [item EXCEPT ![h] = it]
    /\ before' = [before EXCEPT ![h] =
                    [catalog |-> catalog, reservation |-> reservation]]
    /\ alone' = [g \in Handlers |->
                    g = h /\ \A o \in Handlers \ {h} : ~Active(o)]
    /\ faulted' = [faulted EXCEPT ![h] = FALSE]
    /\ writes' = [writes EXCEPT ![h] = 0]
    /\ UNCHANGED fixed

\* The handler returns `r` (or raises, r.type = RAISED).
Respond(h, r) ==
    /\ pc' = [pc EXCEPT ![h] = "done"]
    /\ response' = [response EXCEPT ![h] = r]

\* a store operation of handler h raised (and had no effect on the store)
Fault(h) == faulted' = [faulted EXCEPT ![h] = TRUE]

\* handler h issues a write statement
Write(h) == writes' = [writes EXCEPT ![h] = @ + 1]


(***************************************************************************)
(* Store statements (core.py, lifespan: the prepared statements).           *)
(***************************************************************************)
\* SELECT count FROM medicine WHERE name = ?
medicine_select_count(cat, name) ==
    IF name \in DOMAIN cat THEN <<[count |-> cat[name]]>> ELSE <<>>

\* UPDATE medicine SET count = ? WHERE name = ? IF count = ?
medicine_conditional_update(cat, new, name, expected) ==
    IF name \in DOMAIN cat /\ cat[name] = expected
    THEN [cat EXCEPT ![name] = new]
    ELSE cat

\* PRIMARY KEY (reservation_id, id, account_name) of table reservation
ReservationKey(r) == <<r.reservation_id, r.id, r.account_name>>

\* INSERT INTO reservation (...) VALUES (?, ?, ?, ?, ?): an insert replaces
\* the row of the same primary key, if there is one
reservation_insert(tab, rid, lid, account, name, count) ==
    LET row == [reservation_id |-> rid, id |-> lid, account_name |-> account,
                medicine |-> name, count |-> count]
    IN  {r \in tab : ReservationKey(r) # ReservationKey(row)} \cup {row}

\* mutant: the WHERE clause is lost
reservation_select_everything(tab, rid) == tab

\* SELECT account_name, medicine as name, count FROM reservation
\*   WHERE reservation_id = ?
reservation_select(tab, rid) == {r \in tab : r.reservation_id = rid}

\* mutant: the delete removes nothing
reservation_delete_nothing(tab, rid) == tab

\* DELETE FROM reservation WHERE reservation_id = ?
reservation_delete_partial(tab, rid) ==
    IF \E r \in tab : r.reservation_id = rid
    THEN tab \ {r \in tab : /\ r.reservation_id = rid
                             /\ r # CHOOSE x \in tab : x.reservation_id = rid}
    ELSE tab

reservation_delete(tab, rid) == {r \in tab : r.reservation_id # rid}

(***************************************************************************)
(* get_current_counts: one read per entry, all issued at once, gathered.    *)
(***************************************************************************)
\* (current_count or [{}])[0].get("count")
CountOf(rows) == IF rows = <<>> THEN None ELSE Some(rows[1].count)

\* the reads are issued: nothing has returned yet
IssueReads(h, entries) ==
    /\ pc' = [pc EXCEPT ![h] = "counts"]
    /\ i' = [i EXCEPT ![h] = 1]
    /\ pending' = [pending EXCEPT ![h] = 1..Len(entries)]
    /\ current_counts' = [current_counts EXCEPT ![h] =
                            [k \in 1..Len(entries) |-> None]]

\* mutant: the gather returns with the first read that completes
gathered_first(pend, k) == TRUE

\* await asyncio.gather(*futures) returns once every read has its result:
\* read k is the last of the reads `pend` not yet returned
gathered(pend, k) == pend = {k}

\* one of the reads completes, in any order, or raises out of the gather
\* mutant: the results come back last read first
gather_slot_reversed(k, n) == n + 1 - k

\* asyncio.gather(*futures): the result of the k-th of n futures is the k-th
\* element of the list returned, whenever it completes
gather_slot(k, n) == k

ReadCount(h) ==
    /\ UNCHANGED writes
    /\ pc[h] = "counts"
    /\ \E k \in pending[h] :
        \/ /\ pending' = [pending EXCEPT ![h] = @ \ {k}]
           /\ current_counts' = [current_counts EXCEPT
                ![h][gather_slot(k, Len(item[h].entries))] =
                CountOf(medicine_select_count(catalog,
                                              item[h].entries[k].name))]
           /\ pc' = [pc EXCEPT ![h] =
                        IF gathered(pending[h], k) THEN "cas" ELSE "counts"]
           /\ UNCHANGED <<response, faulted>>
        \/ /\ Fault(h)
           /\ Respond(h, ResponseItem(RAISED, "medicine_select_count"))
           /\ UNCHANGED <<pending, current_counts>>
    /\ UNCHANGED <<store, uuids, started, lines, kind, item, i, reservation_id,
                   loaded, fixed, before, alone, replaced>>

(***************************************************************************)
(* Responses built by the workflows.                                        *)
(***************************************************************************)
medicine_does_not_exist_response(medicine) ==
    ResponseItem(ERROR, "Medicine " \o medicine.name \o " does not exist")

CannotReserve(medicine, limit) ==
    ResponseItem(ERROR,
        "Cannot reserve '" \o medicine.name \o "': requested "
        \o ToString(medicine.count) \o " units while there are only "
        \o ToString(limit))

AnExceptionOccurred == ResponseItem(EXCEPTION, "An exception occurred")

ReservedSuccessfully(rid) ==
    ResponseItem(INFO, "Reserved successfully: " \o UuidStr(rid))

UpdateSuccessfully(rid) ==
    ResponseItem(INFO, "Update successfully: " \o UuidStr(rid))

(***************************************************************************)
(* POST /reserve                                                            *)
(***************************************************************************)
\* mutant: the comparison turned around
Shortfall_reversed(count, limit) == count < limit

\* mutant: the request for exactly the stock is refused
Shortfall_inclusive(count, limit) == count >= limit

\* if medicine.count > current_count
Shortfall(count, limit) == count > limit

\* mutant: the count read is written back unchanged
NewCount_unchanged(limit, count) == limit

\* current_count - medicine.count
NewCount(limit, count) == limit - count

\* mutant: the other variable of the insert loop is bound as the line's count
LineCount_current(medicine, current_count) == current_count[1]

\* the count bound into reservation_insert: medicine.count
LineCount(medicine, current_count) == medicine.count

\* reservation_id = uuid.uuid4(), then the insert loop
ReserveAllocate(h) ==
    /\ uuids' = uuids + 1
    /\ reservation_id' = [reservation_id EXCEPT ![h] = uuid4(uuids)]
    /\ i' = [i EXCEPT ![h] = 1]
    /\ pc' = [pc EXCEPT ![h] = "insert"]
    /\ UNCHANGED response

\* a /reserve request arrives, its entry list drawn from `lists`
ReserveStartFrom(h, lists) ==
    /\ \E entries \in lists :
        /\ Arrive(h, "reserve", [id |-> "", account_name |-> AccountOf(h),
                                 entries |-> entries])
        /\ IF Len(entries) = 0
           THEN /\ uuids' = uuids + 1
                /\ reservation_id' = [reservation_id EXCEPT ![h] =
                                          uuid4(uuids)]
                /\ Respond(h, ReservedSuccessfully(uuid4(uuids)))
                /\ UNCHANGED <<pending, current_counts, i>>
           ELSE /\ IssueReads(h, entries)
                /\ UNCHANGED <<uuids, reservation_id, response>>
    /\ UNCHANGED <<store, loaded, replaced>>

\* the request honours the input contract: every count is positive
ReserveStart(h) == ReserveStartFrom(h, EntryLists)

\* MedicineEntry.count is an int and nothing checks its sign: the counts a
\* request can carry when the client does not honour the contract
AnyCounts == {-1, 0, 1}
AnyEntries == {MedicineEntry(n, c) : n \in Names, c \in AnyCounts}
AnyEntryLists == UNION {[1..n -> AnyEntries] : n \in 0..MaxEntries}

ReserveStartAnyCount(h) == ReserveStartFrom(h, AnyEntryLists)

\* one iteration of the loop over medicine_and_counts
ReserveEntry(h) ==
    /\ pc[h] = "cas"
    /\ kind[h] = "reserve"
    /\ LET medicine == item[h].entries[i[h]]
           current_count == current_counts[h][i[h]]
       IN  IF current_count = None
           THEN /\ Respond(h, medicine_does_not_exist_response(medicine))
                /\ UNCHANGED <<catalog, uuids, i, reservation_id, faulted,
                               writes>>
           ELSE IF Shortfall(medicine.count, current_count[1])
           THEN /\ Respond(h, CannotReserve(medicine, current_count[1]))
                /\ UNCHANGED <<catalog, uuids, i, reservation_id, faulted,
                               writes>>
           ELSE /\ Write(h)
                /\ \/ /\ catalog' = medicine_conditional_update(catalog,
                               NewCount(current_count[1], medicine.count),
                               medicine.name, current_count[1])
                      /\ IF i[h] = Len(item[h].entries)
                         THEN ReserveAllocate(h)
                         ELSE /\ i' = [i EXCEPT ![h] = @ + 1]
                              /\ UNCHANGED <<pc, response, uuids,
                                             reservation_id>>
                      /\ UNCHANGED faulted
                   \/ /\ Fault(h)
                      /\ Respond(h, AnExceptionOccurred)
                      /\ UNCHANGED <<catalog, uuids, i, reservation_id>>
    /\ UNCHANGED <<reservation, started, lines, kind, item, pending,
                   current_counts, loaded, fixed, before, alone, replaced>>

\* one iteration of the insert loop of reserve
ReserveInsert(h) ==
    /\ pc[h] = "insert"
    /\ kind[h] = "reserve"
    /\ Write(h)
    /\ LET medicine == item[h].entries[i[h]]
       IN  \/ /\ reservation' = reservation_insert(reservation,
                    reservation_id[h], uuid4(uuids), item[h].account_name,
                    medicine.name,
                    LineCount(medicine, current_counts[h][i[h]]))
              /\ uuids' = uuids + 1
              /\ IF i[h] = Len(item[h].entries)
                 THEN /\ Respond(h, ReservedSuccessfully(reservation_id[h]))
                      /\ UNCHANGED i
                 ELSE /\ i' = [i EXCEPT ![h] = @ + 1]
                      /\ UNCHANGED <<pc, response>>
              /\ UNCHANGED faulted
           \/ /\ Fault(h)
              /\ Respond(h, ResponseItem(RAISED, "reservation_insert"))
              /\ UNCHANGED <<reservation, uuids, i>>
    /\ UNCHANGED <<catalog, started, lines, kind, item, pending, current_counts,
                   reservation_id, loaded, fixed, before, alone, replaced>>

\* the response has been sent; the handler is free again
Finish(h) ==
    /\ pc[h] = "done"
    /\ pc' = [pc EXCEPT ![h] = "idle"]
    /\ kind' = [kind EXCEPT ![h] = ""]
    /\ item' = [item EXCEPT ![h] = NoItem]
    /\ pending' = [pending EXCEPT ![h] = {}]
    /\ current_counts' = [current_counts EXCEPT ![h] = <<>>]
    /\ i' = [i EXCEPT ![h] = 0]
    /\ reservation_id' = [reservation_id EXCEPT ![h] = 0]
    /\ loaded' = [loaded EXCEPT ![h] = NoLoaded]
    /\ response' = [response EXCEPT ![h] = NoResponse]
    /\ before' = [before EXCEPT ![h] = NoBefore]
    /\ alone' = [alone EXCEPT ![h] = FALSE]
    /\ faulted' = [faulted EXCEPT ![h] = FALSE]
    /\ writes' = [writes EXCEPT ![h] = 0]
    /\ UNCHANGED <<store, uuids, started, lines, fixed, replaced>>

(***************************************************************************)
(* retrieve_single_reservation, GET /query                                  *)
(***************************************************************************)
\* the orders in which the store may return a set of rows
Orderings(rows) ==
    {f \in [1..Cardinality(rows) -> rows] :
        \A x, y \in 1..Cardinality(rows) : x # y => f[x] # f[y]}

\* mutant: the first row only supplies the account_name
ReservationEntryItem_rest(id, all) ==
    [id |-> id,
     account_name |-> all[1].account_name,
     entries |-> [k \in 1..(Len(all) - 1) |->
                    MedicineEntry(all[k + 1].medicine, all[k + 1].count)]]

\* message.py: ReservationEntryItem built from the rows `all`
ReservationEntryItem(id, all) ==
    [id |-> id,
     account_name |-> all[1].account_name,
     entries |-> [k \in 1..Len(all) |->
                    MedicineEntry(all[k].medicine, all[k].count)]]

\* message.py: ReservationResponse
ReservationResponse(type, entry) ==
    [type |-> type, msg |-> "-", id |-> entry.id,
     account_name |-> entry.account_name, entries |-> entry.entries]

InvalidUUID == ResponseItem(ERROR, "Invalid UUID")
NoSuchReservation == ResponseItem(ERROR, "No such reservation")

\* what retrieve_single_reservation can return for `id` on table `tab`
retrieve_single_reservation(tab, id) ==
    IF ~IsUuidStr(id) THEN {InvalidUUID}
    ELSE IF reservation_select(tab, UUID(id)) = {} THEN {NoSuchReservation}
    ELSE {ReservationEntryItem(id, all) :
            all \in Orderings(reservation_select(tab, UUID(id)))}

IsEntryItem(r) == "entries" \in DOMAIN r

\* ids a client can name: garbage, a well-formed id never handed out, and
\* the ids of reservations handed out or present in the store
RequestIds ==
    {"not-a-uuid", UuidStr(0)}
    \cup {UuidStr(r.reservation_id) : r \in reservation}
    \cup {UuidStr(reservation_id[g]) : g \in Handlers}

\* what GET /query can answer for `id` on table `tab`
query(tab, id) ==
    {IF IsEntryItem(r) THEN ReservationResponse(INFO, r) ELSE r :
        r \in retrieve_single_reservation(tab, id)}

QueryStart(h) ==
    /\ \E id \in RequestIds :
        /\ Arrive(h, "query", [id |-> id, account_name |-> "",
                               entries |-> <<>>])
        /\ IF ~IsUuidStr(id)
           THEN Respond(h, InvalidUUID)
           ELSE /\ pc' = [pc EXCEPT ![h] = "retrieve"]
                /\ UNCHANGED response
    /\ UNCHANGED <<store, uuids, pending, current_counts, i, reservation_id,
                   loaded, replaced>>

QueryRetrieve(h) ==
    /\ UNCHANGED writes
    /\ pc[h] = "retrieve"
    /\ kind[h] = "query"
    /\ \/ /\ \E r \in query(reservation, item[h].id) : Respond(h, r)
          /\ UNCHANGED faulted
       \/ /\ Fault(h)
          /\ Respond(h, ResponseItem(RAISED, "reservation_select"))
    /\ UNCHANGED <<store, uuids, started, lines, locals, fixed, before,
                   alone, replaced>>

(***************************************************************************)
(* POST /update                                                             *)
(***************************************************************************)
\* current_reserved.get(name, 0), current_reserved built from the loaded
\* entries in order (a later entry of the same name overwrites an earlier)
RECURSIVE current_reserved_get(_, _)
current_reserved_get(entries, name) ==
    IF entries = <<>> THEN 0
    ELSE IF entries[Len(entries)].name = name
         THEN entries[Len(entries)].count
         ELSE current_reserved_get(SubSeq(entries, 1, Len(entries) - 1), name)

\* limit = current_count + current_reserved.get(medicine.name, 0)
Limit(current_count, reserved) == current_count + reserved

UpdateStartFrom(h, lists) ==
    /\ \E id \in RequestIds, entries \in lists :
        /\ Arrive(h, "update", [id |-> id, account_name |-> "",
                                entries |-> entries])
        /\ IF ~IsUuidStr(id)
           THEN Respond(h, InvalidUUID)
           ELSE /\ pc' = [pc EXCEPT ![h] = "retrieve"]
                /\ UNCHANGED response
    /\ UNCHANGED <<store, uuids, pending, current_counts, i, reservation_id,
                   loaded, replaced>>

UpdateStart(h) == UpdateStartFrom(h, EntryLists)

\* match await retrieve_single_reservation(...), then get_current_counts
UpdateRetrieve(h) ==
    /\ UNCHANGED writes
    /\ pc[h] = "retrieve"
    /\ kind[h] = "update"
    /\ \/ /\ \E r \in retrieve_single_reservation(reservation, item[h].id) :
                IF IsEntryItem(r)
                THEN /\ loaded' = [loaded EXCEPT ![h] = r]
                     /\ IF Len(item[h].entries) = 0
                        THEN /\ pc' = [pc EXCEPT ![h] = "delete"]
                             /\ UNCHANGED <<pending, current_counts, i>>
                        ELSE IssueReads(h, item[h].entries)
                     /\ UNCHANGED response
                ELSE /\ Respond(h, r)
                     /\ UNCHANGED <<loaded, pending, current_counts, i>>
          /\ UNCHANGED faulted
       \/ /\ Fault(h)
          /\ Respond(h, ResponseItem(RAISED, "reservation_select"))
          /\ UNCHANGED <<loaded, pending, current_counts, i>>
    /\ UNCHANGED <<store, uuids, started, lines, kind, item, reservation_id,
                   fixed, before, alone, replaced>>

\* one iteration of the loop over medicine_and_counts in update
UpdateEntry(h) ==
    /\ pc[h] = "cas"
    /\ kind[h] = "update"
    /\ LET medicine == item[h].entries[i[h]]
           current_count == current_counts[h][i[h]]
           reserved == current_reserved_get(loaded[h].entries, medicine.name)
       IN  IF current_count = None
           THEN /\ Respond(h, medicine_does_not_exist_response(medicine))
                /\ UNCHANGED <<catalog, i, faulted, writes>>
           ELSE IF Shortfall(medicine.count, Limit(current_count[1], reserved))
           THEN /\ Respond(h, CannotReserve(medicine,
                                            Limit(current_count[1], reserved)))
                /\ UNCHANGED <<catalog, i, faulted, writes>>
           ELSE /\ Write(h)
                /\ \/ /\ catalog' = medicine_conditional_update(catalog,
                               NewCount(Limit(current_count[1], reserved),
                                        medicine.count),
                               medicine.name, current_count[1])
                      /\ IF i[h] = Len(item[h].entries)
                         THEN /\ pc' = [pc EXCEPT ![h] = "delete"]
                              /\ UNCHANGED i
                         ELSE /\ i' = [i EXCEPT ![h] = @ + 1]
                              /\ UNCHANGED pc
                      /\ UNCHANGED <<response, faulted>>
                   \/ /\ Fault(h)
                      /\ Respond(h, AnExceptionOccurred)
                      /\ UNCHANGED <<catalog, i>>
    /\ UNCHANGED <<reservation, uuids, started, lines, kind, item, pending,
                   current_counts, reservation_id, loaded, fixed, before,
                   alone, replaced>>

\* session.execute(reservation_delete), reservation_id = UUID(reservation.id)
UpdateDelete(h) ==
    /\ pc[h] = "delete"
    /\ kind[h] = "update"
    /\ Write(h)
    /\ \/ /\ reservation' = reservation_delete(reservation,
                                               UUID(loaded[h].id))
          /\ replaced' = replaced \cup {UUID(loaded[h].id)}
          /\ reservation_id' = [reservation_id EXCEPT ![h] =
                                    UUID(loaded[h].id)]
          /\ i' = [i EXCEPT ![h] = 1]
          /\ IF Len(item[h].entries) = 0
             THEN Respond(h, UpdateSuccessfully(UUID(loaded[h].id)))
             ELSE /\ pc' = [pc EXCEPT ![h] = "insert"]
                  /\ UNCHANGED response
          /\ UNCHANGED faulted
       \/ /\ Fault(h)
          /\ Respond(h, ResponseItem(RAISED, "reservation_delete"))
          /\ UNCHANGED <<reservation, replaced, reservation_id, i>>
    /\ UNCHANGED <<catalog, uuids, started, lines, kind, item, pending,
                   current_counts, loaded, fixed, before, alone>>

\* one iteration of the insert loop of update
UpdateInsert(h) ==
    /\ pc[h] = "insert"
    /\ kind[h] = "update"
    /\ Write(h)
    /\ LET medicine == item[h].entries[i[h]]
       IN  \/ /\ reservation' = reservation_insert(reservation,
                    reservation_id[h], uuid4(uuids), loaded[h].account_name,
                    medicine.name,
                    LineCount(medicine, current_counts[h][i[h]]))
              /\ uuids' = uuids + 1
              /\ IF i[h] = Len(item[h].entries)
                 THEN /\ Respond(h, UpdateSuccessfully(reservation_id[h]))
                      /\ UNCHANGED i
                 ELSE /\ i' = [i EXCEPT ![h] = @ + 1]
                      /\ UNCHANGED <<pc, response>>
              /\ UNCHANGED faulted
           \/ /\ Fault(h)
              /\ Respond(h, ResponseItem(RAISED, "reservation_insert"))
              /\ UNCHANGED <<reservation, uuids, i>>
    /\ UNCHANGED <<catalog, started, lines, kind, item, pending,
                   current_counts, reservation_id, loaded, fixed, before,
                   alone, replaced>>

(***************************************************************************)
(* retrieve_reservations, GET /query-all                                    *)
(***************************************************************************)
\* SELECT ... FROM reservation: the store returns the table partition by
\* partition, so the rows of one reservation_id are adjacent
reservation_select_all(tab) ==
    {all \in Orderings(tab) :
        \A x, y, z \in 1..Len(all) :
            (x < y /\ y < z
             /\ all[x].reservation_id = all[z].reservation_id)
            => all[y].reservation_id = all[x].reservation_id}

\* itertools.groupby(all, itemgetter("reservation_id")): maximal runs
RECURSIVE groupby(_)
groupby(all) ==
    IF all = <<>> THEN <<>>
    ELSE LET n == CHOOSE n \in 1..Len(all) :
                    /\ \A k \in 1..n :
                          all[k].reservation_id = all[1].reservation_id
                    /\ \/ n = Len(all)
                       \/ all[n + 1].reservation_id # all[1].reservation_id
         IN  <<SubSeq(all, 1, n)>> \o groupby(SubSeq(all, n + 1, Len(all)))

retrieve_reservations(all) ==
    [g \in 1..Len(groupby(all)) |->
        ReservationEntryItem(UuidStr(groupby(all)[g][1].reservation_id),
                             groupby(all)[g])]

\* mutant: the account filter is lost
reservation_select_account_unfiltered(tab, name) ==
    reservation_select_all(tab)

\* SELECT ... FROM reservation WHERE account_name = ? ALLOW FILTERING
reservation_select_account(tab, name) ==
    reservation_select_all({r \in tab : r.account_name = name})

\* message.py: ReservationsResponse
ReservationsResponse(type, reservations) ==
    [type |-> type, msg |-> "-", reservations |-> reservations]

NoReservationsFound == ResponseItem(ERROR, "No reservations found")

\* retrieve_reservations_response, on the rows `all` the statement returned
retrieve_reservations_response(all) ==
    IF retrieve_reservations(all) = <<>>
    THEN NoReservationsFound
    ELSE ReservationsResponse(INFO, retrieve_reservations(all))

\* the account names a /query-account can carry: "carol" owns nothing
QueryNames == Accounts \cup {"carol"}

\* GET /query-account?name=
QueryAccountStart(h) ==
    /\ \E name \in QueryNames :
        Arrive(h, "query-account", [id |-> "", account_name |-> name,
                                    entries |-> <<>>])
    /\ pc' = [pc EXCEPT ![h] = "retrieve"]
    /\ UNCHANGED <<store, uuids, pending, current_counts, i, reservation_id,
                   loaded, replaced, response>>

query_account(h) ==
    /\ pc[h] = "retrieve"
    /\ kind[h] = "query-account"
    /\ \/ /\ \E all \in reservation_select_account(reservation,
                                                   item[h].account_name) :
                Respond(h, retrieve_reservations_response(all))
          /\ UNCHANGED faulted
       \/ /\ Fault(h)
          /\ Respond(h, ResponseItem(RAISED, "reservation_select_account"))
    /\ UNCHANGED <<store, uuids, started, lines, locals, fixed, before,
                   alone, replaced, writes>>

\* GET /query-all
QueryAllStart(h) ==
    /\ Arrive(h, "query-all", NoItem)
    /\ pc' = [pc EXCEPT ![h] = "retrieve"]
    /\ UNCHANGED <<store, uuids, pending, current_counts, i, reservation_id,
                   loaded, replaced, response>>

query_all(h) ==
    /\ pc[h] = "retrieve"
    /\ kind[h] = "query-all"
    /\ \/ /\ \E all \in reservation_select_all(reservation) :
                Respond(h, retrieve_reservations_response(all))
          /\ UNCHANGED faulted
       \/ /\ Fault(h)
          /\ Respond(h, ResponseItem(RAISED, "reservation_select_all"))
    /\ UNCHANGED <<store, uuids, started, lines, locals, fixed, before,
                   alone, replaced, writes>>

(***************************************************************************)
(* GET /medicine                                                            *)
(***************************************************************************)
\* SELECT * FROM medicine WHERE name = ? (the columns name and count)
medicine_select(cat, name) ==
    IF name \in DOMAIN cat
    THEN <<[name |-> name, count |-> cat[name]]>>
    ELSE <<>>

\* ResultSet.one(): the first row, or None
one(rows) == IF rows = <<>> THEN None ELSE Some(rows[1])

\* message.py: MedicineResponse
MedicineResponse(row, type) == [type |-> type, msg |-> "-", medicine |-> row]

\* dict(obj) raises TypeError when obj is None
TypeError == ResponseItem(RAISED, "TypeError")

\* MedicineResponse(medicine=dict(obj), type=ResponseType.INFO)
medicine_response(obj) ==
    IF obj = None THEN TypeError ELSE MedicineResponse(obj[1], INFO)

MedicineStart(h) ==
    /\ \E name \in Names :
        Arrive(h, "medicine", [id |-> "", account_name |-> "",
                               entries |-> <<>>, name |-> name])
    /\ pc' = [pc EXCEPT ![h] = "retrieve"]
    /\ UNCHANGED <<store, uuids, pending, current_counts, i, reservation_id,
                   loaded, replaced, response>>

\* the handler of GET /medicine: session.execute(query).one(), the response
MedicineRetrieve(h) ==
    /\ pc[h] = "retrieve"
    /\ kind[h] = "medicine"
    /\ \/ /\ Respond(h, medicine_response(
                            one(medicine_select(catalog, item[h].name))))
          /\ UNCHANGED faulted
       \/ /\ Fault(h)
          /\ Respond(h, ResponseItem(RAISED, "medicine_select"))
    /\ UNCHANGED <<store, uuids, started, lines, locals, fixed, before,
                   alone, replaced, writes>>

(***************************************************************************)
(* The listing routes over a store that earlier /reserve requests filled:   *)
(* the store outlives the server process, so the server starts on it.       *)
(***************************************************************************)
\* the insert loop of reserve, run to its end
RECURSIVE InsertLines(_, _, _, _, _)
InsertLines(tab, rid, lid, account, entries) ==
    IF entries = <<>> THEN tab
    ELSE InsertLines(reservation_insert(tab, rid, lid, account,
                                        Head(entries).name,
                                        Head(entries).count),
                     rid, lid + 1, account, Tail(entries))

\* the /reserve requests served earlier: at most MaxRequests of them, of at
\* least one entry each and of at most MaxLines entries together
EarlierRequests ==
    {reqs \in UNION {[1..n -> [account_name : Accounts,
                               entries : EntryLists \ {<<>>}]] :
                        n \in 0..MaxRequests} :
        \A j, k \in DOMAIN reqs :
            j # k => Len(reqs[j].entries) + Len(reqs[k].entries) <= MaxLines}

\* the reservation table and the uuid counter after serving reqs in order
RECURSIVE Served(_)
Served(reqs) ==
    IF reqs = <<>> THEN [tab |-> {}, uuids |-> 0]
    ELSE LET prev == Served(SubSeq(reqs, 1, Len(reqs) - 1))
             rq == reqs[Len(reqs)]
         IN  [tab |-> InsertLines(prev.tab, prev.uuids + 1, prev.uuids + 2,
                                  rq.account_name, rq.entries),
              uuids |-> prev.uuids + 1 + Len(rq.entries)]

\* the listing routes never read the medicine table: it starts fully stocked
InitListing ==
    /\ catalog \in {c \in Catalogs : \A n \in DOMAIN c : c[n] = MaxStock}
    /\ \E reqs \in EarlierRequests :
        /\ reservation = Served(reqs).tab
        /\ uuids = Served(reqs).uuids
    /\ started = 0
    /\ lines = 0
    /\ pc = [h \in Handlers |-> "idle"]
    /\ kind = [h \in Handlers |-> ""]
    /\ item = [h \in Handlers |-> NoItem]
    /\ pending = [h \in Handlers |-> {}]
    /\ current_counts = [h \in Handlers |-> <<>>]
    /\ i = [h \in Handlers |-> 0]
    /\ reservation_id = [h \in Handlers |-> 0]
    /\ loaded = [h \in Handlers |-> NoLoaded]
    /\ response = [h \in Handlers |-> NoResponse]
    /\ initial = catalog
    /\ before = [h \in Handlers |-> NoBefore]
    /\ alone = [h \in Handlers |-> FALSE]
    /\ faulted = [h \in Handlers |-> FALSE]
    /\ replaced = {}
    /\ writes = [h \in Handlers |-> 0]
    /\ keyspace = medicines
    /\ keyspaces = {keyspace}
    /\ bulk = NoUpload

NextListing ==
    \E h \in Handlers :
        \/ QueryAccountStart(h)
        \/ query_account(h)
        \/ QueryAllStart(h)
        \/ query_all(h)
        \/ MedicineStart(h)
        \/ MedicineRetrieve(h)
        \/ Finish(h)

\* only read-only requests arrive: /query-account, /query-all, /medicine
SpecListing == InitListing /\ [][NextListing]_vars

\* the server starts on a store that holds one reservation of one line, made
\* earlier, and a catalog that lists every medicine
InitWindow ==
    /\ InitListing
    /\ DOMAIN catalog = Names
    /\ Cardinality(reservation) = 1

\* an /update request that replaces a reservation by a single line arrives
UpdateStartSingle(h) ==
    UpdateStartFrom(h, {entries \in EntryLists : Len(entries) = 1})

NextWindow ==
    \E h \in Handlers :
        \/ UpdateStartSingle(h)
        \/ QueryStart(h)
        \/ ReadCount(h)
        \/ QueryRetrieve(h)
        \/ UpdateRetrieve(h)
        \/ UpdateEntry(h)
        \/ UpdateDelete(h)
        \/ UpdateInsert(h)
        \/ Finish(h)

\* /update and /query requests arrive at a store holding one reservation
SpecWindow == InitWindow /\ [][NextWindow]_vars

(***************************************************************************)
(* GET /clean                                                               *)
(***************************************************************************)
\* the keyspace names of the cluster: the one the route names and another
KeyspaceNames == {medicines, "pharmacy"}

\* a medicine table without rows
NoRows == [n \in {} |-> 0]

Cleaned == ResponseItem(INFO, "Cleaned the database")

CleanStart(h) ==
    /\ Arrive(h, "clean", NoItem)
    /\ pc' = [pc EXCEPT ![h] = "drop"]
    /\ UNCHANGED <<store, uuids, pending, current_counts, i, reservation_id,
                   loaded, replaced, response>>

\* await execute_async(app.session, "DROP KEYSPACE medicines;"): the keyspace
\* of that name goes with its tables; the statement fails when there is none
clean_drop(h) ==
    /\ pc[h] = "drop"
    /\ kind[h] = "clean"
    /\ \/ /\ medicines \in keyspaces
          /\ keyspaces' = keyspaces \ {medicines}
          /\ IF keyspace = medicines
             THEN catalog' = NoRows /\ reservation' = {}
             ELSE UNCHANGED store
          /\ pc' = [pc EXCEPT ![h] = "init"]
          /\ UNCHANGED <<response, faulted>>
       \/ /\ medicines \notin keyspaces
          /\ Respond(h, ResponseItem(RAISED, "ConfigurationException"))
          /\ UNCHANGED <<store, keyspaces, faulted>>
       \/ /\ Fault(h)
          /\ Respond(h, ResponseItem(RAISED, "DROP KEYSPACE"))
          /\ UNCHANGED <<store, keyspaces>>
    /\ UNCHANGED <<uuids, started, lines, locals, initial, keyspace, bulk,
                   before, alone, replaced, writes>>

\* init_empty(app.session): create_keyspace_simple and sync_table create the
\* configured keyspace and its tables where they do not exist and leave
\* existing ones as they are; then the response
init_empty(h) ==
    /\ pc[h] = "init"
    /\ kind[h] = "clean"
    /\ keyspaces' = keyspaces \cup {keyspace}
    /\ Respond(h, Cleaned)
    /\ UNCHANGED <<store, uuids, started, lines, locals, initial, keyspace,
                   bulk, before, alone, faulted, replaced, writes>>

\* the server is configured with any keyspace name; its keyspace exists
\* (lifespan creates it) and holds what earlier runs left in it
InitClean ==
    /\ catalog \in Catalogs
    /\ \E reqs \in {r \in EarlierRequests : Len(r) <= 1} :
        /\ reservation = Served(reqs).tab
        /\ uuids = Served(reqs).uuids
    /\ started = 0
    /\ lines = 0
    /\ pc = [h \in Handlers |-> "idle"]
    /\ kind = [h \in Handlers |-> ""]
    /\ item = [h \in Handlers |-> NoItem]
    /\ pending = [h \in Handlers |-> {}]
    /\ current_counts = [h \in Handlers |-> <<>>]
    /\ i = [h \in Handlers |-> 0]
    /\ reservation_id = [h \in Handlers |-> 0]
    /\ loaded = [h \in Handlers |-> NoLoaded]
    /\ response = [h \in Handlers |-> NoResponse]
    /\ initial = catalog
    /\ before = [h \in Handlers |-> NoBefore]
    /\ alone = [h \in Handlers |-> FALSE]
    /\ faulted = [h \in Handlers |-> FALSE]
    /\ replaced = {}
    /\ writes = [h \in Handlers |-> 0]
    /\ keyspace \in KeyspaceNames
    /\ keyspaces \in {k \in SUBSET KeyspaceNames : keyspace \in k}
    /\ bulk = NoUpload

NextClean ==
    \E h \in Handlers :
        \/ CleanStart(h)
        \/ clean_drop(h)
        \/ init_empty(h)
        \/ Finish(h)

\* /clean requests arrive at a server of any configured keyspace
SpecClean == InitClean /\ [][NextClean]_vars

(***************************************************************************)
(* The bulk upload (utils/db.py, upload).                                   *)
(* The main thread calls insert_next() for the first rows and waits for     *)
(* the event; every insert that calls back runs insert_next(result) on a    *)
(* thread of the driver.  A call of insert_next is modelled statement by    *)
(* statement, the calls on the driver's threads by the number of calls at   *)
(* each statement.                                                          *)
(***************************************************************************)
\* the number of inserts the main thread starts: min(Window, num_queries)
Window == 3

\* the sizes of the dataset
MaxRows == 5

Min(x, y) == IF x < y THEN x ELSE y

\* mutant: the event is set one callback early
last_finished_early(finished, num_queries) == finished >= num_queries - 2

\* next(num_finished) >= num_queries - 1, `finished` the value next() returned
last_finished(finished, num_queries) == finished >= num_queries - 1

\* next(num_started) < num_queries, `started_` the value next() returned
more_to_start(started_, num_queries) == started_ < num_queries

\* some call is inside next(data_it): the generator is executing
Iterating == bulk.main = "submit" \/ bulk.at_submit > 0

\* upload(data, keyspace_name, replication_factor) up to Logger.info(
\* "Uploading dataset"): the keyspace and the tables exist, the locals are set
UploadStart ==
    /\ bulk = NoUpload
    /\ \E n \in 0..MaxRows :
        bulk' = [main |-> "loop",
                 num_queries |-> n,
                 num_started |-> 0,
                 num_finished |-> 0,
                 event |-> FALSE,
                 data_it |-> 0,
                 submitted |-> [r \in 1..n |-> 0],
                 loop |-> 0,
                 in_flight |-> 0,
                 peak |-> 0,
                 completed |-> 0,
                 errors |-> 0,
                 dropped |-> 0,
                 at_finish |-> 0,
                 at_start |-> 0,
                 at_next |-> 0,
                 at_submit |-> 0]
    /\ keyspaces' = keyspaces \cup {keyspace}
    /\ UNCHANGED <<store, uuids, started, lines, pc, locals, response,
                   initial, keyspace, before, alone, faulted, replaced,
                   writes>>

\* every step of the upload changes the locals of upload only; the rows it
\* sends are counted in bulk.completed and bulk.errors
UploadStep(b) ==
    /\ bulk # NoUpload
    /\ bulk' = b
    /\ UNCHANGED <<store, uuids, started, lines, pc, locals, response,
                   initial, keyspace, keyspaces, before, alone, faulted,
                   replaced, writes>>

\* for _ in range(min(20, num_queries)): insert_next(), then event.wait()
MainLoop ==
    /\ bulk.main = "loop"
    /\ IF bulk.loop < Min(Window, bulk.num_queries)
       THEN UploadStep([bulk EXCEPT !.loop = @ + 1, !.main = "start"])
       ELSE UploadStep([bulk EXCEPT !.main = "wait"])

\* insert_next() on the main thread: if next(num_started) < num_queries
MainStart ==
    /\ bulk.main = "start"
    /\ UploadStep([bulk EXCEPT
            !.num_started = @ + 1,
            !.main = IF more_to_start(bulk.num_started, bulk.num_queries)
                     THEN "next" ELSE "loop"])

\* _, series = next(data_it), entered: a generator that is executing on
\* another thread raises ValueError, which leaves upload
MainNext ==
    /\ bulk.main = "next"
    /\ UploadStep([bulk EXCEPT
            !.main = IF Iterating THEN "raised" ELSE "submit"])

\* the row is yielded, bound and sent: session.execute_async(query),
\* future.add_callbacks(insert_next, insert_next)
MainSubmit ==
    /\ bulk.main = "submit"
    /\ UploadStep([bulk EXCEPT
            !.data_it = @ + 1,
            !.submitted[bulk.data_it + 1] = @ + 1,
            !.in_flight = @ + 1,
            !.peak = IF bulk.in_flight + 1 > @ THEN bulk.in_flight + 1 ELSE @,
            !.main = "loop"])

\* an insert calls back, with its result or with an exception:
\* insert_next(previous_result) starts on a thread of the driver
Complete ==
    /\ bulk # NoUpload
    /\ bulk.in_flight > 0
    /\ \E failed \in BOOLEAN :
        UploadStep([bulk EXCEPT
            !.in_flight = @ - 1,
            !.completed = @ + 1,
            !.errors = IF failed THEN @ + 1 ELSE @,
            !.at_finish = @ + 1])

\* if previous_result != guard: (log the error,) if next(num_finished) >=
\* num_queries - 1: event.set()
CallbackFinish ==
    /\ bulk # NoUpload
    /\ bulk.at_finish > 0
    /\ UploadStep([bulk EXCEPT
            !.at_finish = @ - 1,
            !.num_finished = @ + 1,
            !.event = @ \/ last_finished(bulk.num_finished, bulk.num_queries),
            !.at_start = @ + 1])

\* if next(num_started) < num_queries, in a callback
CallbackStart ==
    /\ bulk # NoUpload
    /\ bulk.at_start > 0
    /\ UploadStep([bulk EXCEPT
            !.at_start = @ - 1,
            !.num_started = @ + 1,
            !.at_next = IF more_to_start(bulk.num_started, bulk.num_queries)
                        THEN @ + 1 ELSE @])

\* next(data_it) entered in a callback: ValueError ends the callback, and the
\* driver logs and drops it
CallbackNext ==
    /\ bulk # NoUpload
    /\ bulk.at_next > 0
    /\ UploadStep([bulk EXCEPT
            !.at_next = @ - 1,
            !.dropped = IF Iterating THEN @ + 1 ELSE @,
            !.at_submit = IF Iterating THEN @ ELSE @ + 1])

\* the row is yielded, bound and sent, in a callback
CallbackSubmit ==
    /\ bulk # NoUpload
    /\ bulk.at_submit > 0
    /\ UploadStep([bulk EXCEPT
            !.at_submit = @ - 1,
            !.data_it = @ + 1,
            !.submitted[bulk.data_it + 1] = @ + 1,
            !.in_flight = @ + 1,
            !.peak = IF bulk.in_flight + 1 > @ THEN bulk.in_flight + 1 ELSE @])

\* event.wait() returns once the event is set, and upload returns
Wait ==
    /\ bulk.main = "wait"
    /\ bulk.event
    /\ UploadStep([bulk EXCEPT !.main = "returned"])

\* the cluster before the upload: any keyspaces, no server running
InitUpload ==
    /\ catalog = NoRows
    /\ reservation = {}
    /\ uuids = 0
    /\ started = 0
    /\ lines = 0
    /\ pc = [h \in Handlers |-> "idle"]
    /\ kind = [h \in Handlers |-> ""]
    /\ item = [h \in Handlers |-> NoItem]
    /\ pending = [h \in Handlers |-> {}]
    /\ current_counts = [h \in Handlers |-> <<>>]
    /\ i = [h \in Handlers |-> 0]
    /\ reservation_id = [h \in Handlers |-> 0]
    /\ loaded = [h \in Handlers |-> NoLoaded]
    /\ response = [h \in Handlers |-> NoResponse]
    /\ initial = catalog
    /\ before = [h \in Handlers |-> NoBefore]
    /\ alone = [h \in Handlers |-> FALSE]
    /\ faulted = [h \in Handlers |-> FALSE]
    /\ replaced = {}
    /\ writes = [h \in Handlers |-> 0]
    /\ keyspace = medicines
    /\ keyspaces \in SUBSET KeyspaceNames
    /\ bulk = NoUpload

NextUpload ==
    \/ UploadStart
    \/ MainLoop
    \/ MainStart
    \/ MainNext
    \/ MainSubmit
    \/ Complete
    \/ CallbackFinish
    \/ CallbackStart
    \/ CallbackNext
    \/ CallbackSubmit
    \/ Wait

\* one bulk upload of a dataset of any size up to MaxRows
SpecUpload == InitUpload /\ [][NextUpload]_vars

\* every thread keeps running, and every insert issued calls back
FairUpload ==
    /\ WF_vars(MainLoop) /\ WF_vars(MainStart) /\ WF_vars(MainNext)
    /\ WF_vars(MainSubmit) /\ WF_vars(Wait)
    /\ WF_vars(Complete)
    /\ WF_vars(CallbackFinish) /\ WF_vars(CallbackStart)
    /\ WF_vars(CallbackNext) /\ WF_vars(CallbackSubmit)

SpecUploadFair == SpecUpload /\ FairUpload

\* the rows the statement of listing request h selects
Selected(h) ==
    IF kind[h] = "query-account"
    THEN {r \in reservation : r.account_name = item[h].account_name}
    ELSE reservation

\* retrieve_reservations applied to the selected rows in any order, the rows
\* of one reservation adjacent or not
retrieve_reservations_any_order(h) ==
    /\ pc[h] = "retrieve"
    /\ kind[h] \in {"query-account", "query-all"}
    /\ \E all \in Orderings(Selected(h)) :
            Respond(h, retrieve_reservations_response(all))
    /\ UNCHANGED <<store, uuids, started, lines, locals, history>>

NextGrouping ==
    \E h \in Handlers :
        \/ QueryAccountStart(h)
        \/ QueryAllStart(h)
        \/ retrieve_reservations_any_order(h)
        \/ Finish(h)

\* the grouping of the listing routes, fed the selected rows in every order
SpecGrouping == InitListing /\ [][NextGrouping]_vars

\* an /update request that replaces a reservation by two lines of different
\* medicines arrives
UpdateStartPair(h) ==
    UpdateStartFrom(h, {entries \in EntryLists :
                           /\ Len(entries) = 2
                           /\ entries[1].name # entries[2].name})

NextPair ==
    \E h \in Handlers :
        \/ UpdateStartPair(h)
        \/ QueryStart(h)
        \/ ReadCount(h)
        \/ QueryRetrieve(h)
        \/ UpdateRetrieve(h)
        \/ UpdateEntry(h)
        \/ UpdateDelete(h)
        \/ UpdateInsert(h)
        \/ Finish(h)

\* two-line /update and /query requests arrive at a store holding one
\* reservation
SpecPair == InitWindow /\ [][NextPair]_vars

NextReserve ==
    \E h \in Handlers :
        \/ ReserveStart(h)
        \/ ReadCount(h)
        \/ ReserveEntry(h)
        \/ ReserveInsert(h)
        \/ Finish(h)

\* only /reserve requests arrive
SpecReserve == Init /\ [][NextReserve]_vars

\* the handler was cancelled, or the server process stopped under it
Cancelled == ResponseItem(RAISED, "cancelled")

\* a /reserve workflow stops where it stands, between two store operations:
\* its task is cancelled while it awaits the count reads, or the process is
\* stopped (the server runs under a reloader) anywhere after
Stop(h) ==
    /\ kind[h] = "reserve"
    /\ pc[h] \in {"counts", "cas", "insert"}
    /\ Respond(h, Cancelled)
    /\ UNCHANGED <<store, uuids, started, lines, locals, history>>

NextReserveStop ==
    \E h \in Handlers :
        \/ ReserveStart(h)
        \/ ReadCount(h)
        \/ ReserveEntry(h)
        \/ ReserveInsert(h)
        \/ Stop(h)
        \/ Finish(h)

\* only /reserve requests arrive, and a workflow may stop at any point
SpecReserveStop == Init /\ [][NextReserveStop]_vars

NextAnyCount ==
    \E h \in Handlers :
        \/ ReserveStartAnyCount(h)
        \/ ReadCount(h)
        \/ ReserveEntry(h)
        \/ ReserveInsert(h)
        \/ Finish(h)

\* only /reserve requests arrive, with counts of any sign
SpecAnyCount == Init /\ [][NextAnyCount]_vars

Next ==
    \E h \in Handlers :
        \/ ReserveStart(h)
        \/ UpdateStart(h)
        \/ QueryStart(h)
        \/ ReadCount(h)
        \/ ReserveEntry(h)
        \/ ReserveInsert(h)
        \/ QueryRetrieve(h)
        \/ UpdateRetrieve(h)
        \/ UpdateEntry(h)
        \/ UpdateDelete(h)
        \/ UpdateInsert(h)
        \/ Finish(h)

\* requests of every route arrive
Spec == Init /\ [][Next]_vars

(***************************************************************************)
(* Properties.                                                              *)
(***************************************************************************)
RECURSIVE SumCounts(_)
SumCounts(rows) ==
    IF rows = {} THEN 0
    ELSE LET r == CHOOSE r \in rows : TRUE
         IN  r.count + SumCounts(rows \ {r})

\* units of medicine m held by the reservation lines of table tab
Reserved(tab, m) == SumCounts({r \in tab : r.medicine = m})

Conserved ==
    \A m \in DOMAIN catalog :
        catalog[m] + Reserved(reservation, m) = initial[m]

\* number of positions of seq holding e
Occurrences(seq, e) == Cardinality({k \in DOMAIN seq : seq[k] = e})

SameBag(s, t) ==
    /\ Len(s) = Len(t)
    /\ \A k \in DOMAIN s : Occurrences(s, s[k]) = Occurrences(t, s[k])

\* every handler has answered one /reserve request and no store operation
\* raised: with MaxRequests = NumHandlers these are all the requests of the run
AllReserved ==
    /\ started = NumHandlers
    /\ \A h \in Handlers :
        pc[h] = "done" /\ kind[h] = "reserve" /\ ~faulted[h]

\* handler h has answered a /reserve request that ran with no other request
\* in flight and without a store fault, and no request has arrived since
ReservedAlone(h) ==
    /\ pc[h] = "done"
    /\ kind[h] = "reserve"
    /\ alone[h]
    /\ ~faulted[h]

DistinctNames(entries) ==
    \A j, k \in DOMAIN entries : j # k => entries[j].name # entries[k].name

\* the rows the store holds now and did not hold when h's request arrived
NewLines(h) == reservation \ before[h].reservation

\* C1: conservation under concurrent /reserve requests: once every request
\* has been answered, catalog count + reserved units of every medicine is
\* what the catalog held at the start.  Stated here for requests of one
\* entry each that were all answered INFO.
C1_Conservation ==
    (/\ AllReserved
     /\ \A h \in Handlers :
            Len(item[h].entries) = 1 /\ response[h].type = INFO)
    => Conserved

\* C2: the count of every medicine is non-negative in every reachable state
\* of the store, whatever /reserve and /update requests arrive and interleave.
C2_NonNegative == \A m \in DOMAIN catalog : catalog[m] >= 0

\* C2 witness: an /update has been answered INFO and a count stands at 0.
C2_Witness ==
    \E h \in Handlers :
        /\ pc[h] = "done" /\ kind[h] = "update" /\ response[h].type = INFO
        /\ writes[h] > 1
        /\ \E m \in DOMAIN catalog : catalog[m] = 0

\* C3: no oversell: catalog {a: S}, N > S requests for one unit of "a" each:
\* exactly S are answered INFO, N - S ERROR, and the count ends at 0.
C3_NoOversell ==
    (/\ AllReserved
     /\ \A h \in Handlers : item[h].entries = <<MedicineEntry("a", 1)>>
     /\ NumHandlers > initial["a"])
    => /\ Cardinality({h \in Handlers : response[h].type = INFO})
            = initial["a"]
       /\ Cardinality({h \in Handlers : response[h].type = ERROR})
            = NumHandlers - initial["a"]
       /\ catalog["a"] = 0

\* C4: demand equal to stock: catalog {a: N*q}, N requests for q units of
\* "a" each: all are answered INFO with pairwise distinct reservation ids,
\* the count ends at 0 and /query-all returns N reservations.
C4_DemandEqualsStock ==
    \A q \in 1..MaxCount :
        (/\ AllReserved
         /\ \A h \in Handlers : item[h].entries = <<MedicineEntry("a", q)>>
         /\ initial["a"] = NumHandlers * q)
        => /\ \A h \in Handlers :
                response[h] = ReservedSuccessfully(reservation_id[h])
           /\ \A g, h \in Handlers :
                g # h => reservation_id[g] # reservation_id[h]
           /\ catalog["a"] = 0
           /\ \A all \in reservation_select_all(reservation) :
                Len(retrieve_reservations(all)) = NumHandlers

\* C5: a /reserve that ends without INFO (rejection, or a store fault at any
\* step, a line insert included) leaves no line of its own in the store.
\* Stated here for requests whose entries name pairwise distinct medicines.
C5_AtomicCreation ==
    \A h \in Handlers :
        (/\ pc[h] = "done" /\ kind[h] = "reserve" /\ response[h].type # INFO
         /\ DistinctNames(item[h].entries))
        => reservation_select(reservation, reservation_id[h]) = {}

\* C6: a shortfall on a later entry, after earlier entries were decremented,
\* is answered ERROR and leaves every count as it was before the request.
\* Stated here for requests whose entries name pairwise distinct medicines.
C6_Compensation ==
    \A h \in Handlers :
        (/\ ReservedAlone(h)
         /\ DistinctNames(item[h].entries)
         /\ i[h] > 1
         /\ current_counts[h][i[h]] # None
         /\ item[h].entries[i[h]].count > current_counts[h][i[h]][1])
        => /\ response[h].type = ERROR
           /\ catalog = before[h].catalog

\* C7: stock boundary of a single-entry /reserve with no concurrent request:
\* asking for exactly the current count is answered INFO and leaves 0;
\* asking for one more is answered ERROR, issues no write and leaves the
\* catalog and the reservation table unchanged.
C7_StockBoundary ==
    \A h \in Handlers :
        (/\ ReservedAlone(h)
         /\ Len(item[h].entries) = 1
         /\ item[h].entries[1].name \in DOMAIN catalog)
        => LET medicine == item[h].entries[1]
               current == before[h].catalog[medicine.name]
           IN  /\ medicine.count = current
                    => /\ response[h].type = INFO
                       /\ catalog[medicine.name] = 0
               /\ medicine.count = current + 1
                    => /\ response[h].type = ERROR
                       /\ writes[h] = 0
                       /\ catalog = before[h].catalog
                       /\ reservation = before[h].reservation

\* C7 witness: a lone request for exactly the stock has been answered.
C7_Witness ==
    \E h \in Handlers :
        /\ ReservedAlone(h)
        /\ Len(item[h].entries) = 1
        /\ item[h].entries[1].name \in DOMAIN catalog
        /\ item[h].entries[1].count
             = before[h].catalog[item[h].entries[1].name]
        /\ response[h].type = INFO

\* C8: a /reserve naming a medicine that is not in the catalog, at any
\* position of its entry list, is answered ERROR "Medicine <name> does not
\* exist" and leaves every count and the reservation table as before.
\* Stated here for requests whose entries name pairwise distinct medicines
\* and ask for no more than the stock of those that exist.
C8_MissingMedicine ==
    \A h \in Handlers :
        (/\ ReservedAlone(h)
         /\ DistinctNames(item[h].entries)
         /\ \E k \in DOMAIN item[h].entries :
                item[h].entries[k].name \notin DOMAIN catalog
         /\ \A k \in DOMAIN item[h].entries :
                item[h].entries[k].name \in DOMAIN catalog
                => item[h].entries[k].count
                     <= before[h].catalog[item[h].entries[k].name])
        => /\ \E k \in DOMAIN item[h].entries :
                /\ item[h].entries[k].name \notin DOMAIN catalog
                /\ response[h] =
                     medicine_does_not_exist_response(item[h].entries[k])
           /\ catalog = before[h].catalog
           /\ reservation = before[h].reservation

\* the postcondition of a successful /reserve at handler h
ReservePostcondition(h) ==
    /\ response[h] = ReservedSuccessfully(reservation_id[h])
    /\ \A k \in DOMAIN item[h].entries :
            catalog[item[h].entries[k].name]
              = before[h].catalog[item[h].entries[k].name]
                  - item[h].entries[k].count
    /\ Cardinality(NewLines(h)) = Len(item[h].entries)
    /\ \A r \in NewLines(h) :
            /\ r.reservation_id = reservation_id[h]
            /\ r.account_name = item[h].account_name
    /\ \A r, t \in NewLines(h) : r # t => r.id # t.id
    /\ \E all \in Orderings(NewLines(h)) :
            [k \in DOMAIN all |-> MedicineEntry(all[k].medicine, all[k].count)]
              = item[h].entries

\* every entry names a medicine of the catalog and asks for at most its count
Satisfiable(h) ==
    \A k \in DOMAIN item[h].entries :
        /\ item[h].entries[k].name \in DOMAIN catalog
        /\ item[h].entries[k].count
             <= before[h].catalog[item[h].entries[k].name]

QueriedAfterReserve(q, r) ==
    /\ pc[q] = "done" /\ kind[q] = "query" /\ alone[q] /\ ~faulted[q]
    /\ pc[r] = "done" /\ kind[r] = "reserve" /\ response[r].type = INFO
    /\ item[q].id = UuidStr(reservation_id[r])
    /\ reservation_id[r] \notin replaced

RoundTrip(q, r) ==
    /\ response[q].type = INFO
    /\ IsEntryItem(response[q])
    /\ response[q].account_name = item[r].account_name
    /\ SameBag(response[q].entries, item[r].entries)

\* C10 as stated: /query?id=X after a /reserve answered INFO with id X (no
\* /update in between) is answered INFO with the request's account_name and
\* the submitted entries, as a multiset of (name, count).
C10_RoundTrip_original ==
    \A q, r \in Handlers : QueriedAfterReserve(q, r) => RoundTrip(q, r)

\* C10 amended: the same, for a /reserve that carried at least one entry.
C10_RoundTrip ==
    \A q, r \in Handlers :
        (QueriedAfterReserve(q, r) /\ Len(item[r].entries) > 0)
        => RoundTrip(q, r)

\* C10 witness: such a query has been answered for a two-entry reservation.
C10_Witness ==
    \E q, r \in Handlers :
        /\ QueriedAfterReserve(q, r)
        /\ Len(item[r].entries) = 2
        /\ response[q].type = INFO

(***************************************************************************)
(* Properties of /update.                                                   *)
(***************************************************************************)
\* handler h has answered an /update request that ran with no other request
\* in flight and without a store fault, and no request has arrived since
UpdatedAlone(h) ==
    /\ pc[h] = "done"
    /\ kind[h] = "update"
    /\ alone[h]
    /\ ~faulted[h]

\* units of medicine m held by the lines of reservation rid in table tab
Held(tab, rid, m) ==
    SumCounts({r \in tab : r.reservation_id = rid /\ r.medicine = m})

\* the medicines named by the lines of reservation rid in table tab
HeldNames(tab, rid) == {r.medicine : r \in reservation_select(tab, rid)}

\* no two lines of reservation rid in table tab name the same medicine
DistinctLines(tab, rid) ==
    \A r, t \in reservation_select(tab, rid) :
        r # t => r.medicine # t.medicine

\* C11: after an /update answered INFO that ran with no concurrent request,
\* the count of every medicine named in the new entries is its count before
\* plus the units the reservation held of it before minus the new entry's
\* count.
C11_UpdateDelta ==
    \A h \in Handlers :
        (UpdatedAlone(h) /\ response[h].type = INFO)
        => \A k \in DOMAIN item[h].entries :
             LET medicine == item[h].entries[k]
             IN  catalog[medicine.name]
                   = before[h].catalog[medicine.name]
                     + Held(before[h].reservation, UUID(item[h].id),
                            medicine.name)
                     - medicine.count

\* the same for new entries, and an old reservation, of pairwise distinct
\* medicine names
C11_UpdateDeltaDistinct ==
    \A h \in Handlers :
        (/\ UpdatedAlone(h) /\ response[h].type = INFO
         /\ DistinctNames(item[h].entries)
         /\ DistinctLines(before[h].reservation, UUID(item[h].id)))
        => \A k \in DOMAIN item[h].entries :
             LET medicine == item[h].entries[k]
             IN  catalog[medicine.name]
                   = before[h].catalog[medicine.name]
                     + Held(before[h].reservation, UUID(item[h].id),
                            medicine.name)
                     - medicine.count

\* the names of the entries of a request
EntryNames(entries) == {entries[k].name : k \in DOMAIN entries}

\* /query?id=X, issued now, answers with the entries of h's /update, under
\* the id and the account_name the reservation had before the update
QueryYieldsUpdate(h) ==
    \A r \in query(reservation, item[h].id) :
        /\ r.type = INFO
        /\ IsEntryItem(r)
        /\ r.id = item[h].id
        /\ \A t \in reservation_select(before[h].reservation,
                                       UUID(item[h].id)) :
                t.account_name = r.account_name
        /\ SameBag(r.entries, item[h].entries)

C13_FreedInventory ==
    \A h \in Handlers :
        (UpdatedAlone(h) /\ response[h].type = INFO)
        => \A m \in HeldNames(before[h].reservation, UUID(item[h].id))
                      \ EntryNames(item[h].entries) :
             /\ catalog[m] = before[h].catalog[m]
                  + Held(before[h].reservation, UUID(item[h].id), m)
             /\ catalog[m] + Reserved(reservation, m)
                  = before[h].catalog[m] + Reserved(before[h].reservation, m)

(***************************************************************************)
(* Properties of the id checks and of /query.                               *)
(***************************************************************************)
\* the lines table tab holds under the id that the string names
LinesOf(tab, id) == {r \in tab : UuidStr(r.reservation_id) = id}

\* C14: an /update whose id is not a well-formed UUID is answered ERROR
\* "Invalid UUID"; one whose id is well-formed but has no lines in the store
\* is answered ERROR "No such reservation"; either way no count was read, no
\* write statement was issued and the store is as it was.
C14_UpdateBadId ==
    \A h \in Handlers :
        (pc[h] = "done" /\ kind[h] = "update" /\ ~faulted[h])
        => /\ ~IsUuidStr(item[h].id) => response[h] = InvalidUUID
           /\ (/\ IsUuidStr(item[h].id)
               /\ alone[h]
               /\ LinesOf(before[h].reservation, item[h].id) = {})
              => response[h] = NoSuchReservation
           /\ response[h] \in {InvalidUUID, NoSuchReservation}
              => /\ writes[h] = 0
                 /\ current_counts[h] = <<>>
                 /\ alone[h] => /\ catalog = before[h].catalog
                                /\ reservation = before[h].reservation

\* C14 witness: an /update naming a well-formed id that has no lines has been
\* answered while the store holds the lines of another reservation.
C14_Witness ==
    \E h \in Handlers :
        /\ pc[h] = "done" /\ kind[h] = "update" /\ ~faulted[h] /\ alone[h]
        /\ IsUuidStr(item[h].id)
        /\ Len(item[h].entries) > 0
        /\ reservation # {}
        /\ response[h] = NoSuchReservation

\* handler h has answered a /query request that ran with no other request in
\* flight and without a store fault, and no request has arrived since
QueriedAlone(h) ==
    /\ pc[h] = "done"
    /\ kind[h] = "query"
    /\ alone[h]
    /\ ~faulted[h]

\* C15: /query?id=v is answered ERROR "Invalid UUID" when v is not a
\* well-formed UUID, ERROR "No such reservation" when v is well-formed and
\* the store holds no line under it, and otherwise INFO with the id, the
\* account_name of the lines and one entry per stored line.
C15_QueryById ==
    \A h \in Handlers :
        QueriedAlone(h)
        => LET rows == LinesOf(reservation, item[h].id)
           IN  IF ~IsUuidStr(item[h].id) THEN response[h] = InvalidUUID
               ELSE IF rows = {} THEN response[h] = NoSuchReservation
               ELSE /\ response[h].type = INFO
                    /\ IsEntryItem(response[h])
                    /\ response[h].id = item[h].id
                    /\ \A t \in rows :
                          t.account_name = response[h].account_name
                    /\ \E all \in Orderings(rows) :
                          response[h].entries =
                            [k \in DOMAIN all |->
                               MedicineEntry(all[k].medicine, all[k].count)]

\* C15 witness: a /query has been answered INFO for a reservation of two
\* lines.
C15_Witness ==
    \E h \in Handlers :
        /\ QueriedAlone(h)
        /\ Cardinality(LinesOf(reservation, item[h].id)) = 2
        /\ response[h].type = INFO

(***************************************************************************)
(* Properties of /query-account and /query-all.                             *)
(***************************************************************************)
\* the reservation ids, as strings, of a set of lines
IdsOf(rows) == {UuidStr(r.reservation_id) : r \in rows}

\* resp lists the reservations that the lines `rows` make up: each of them
\* once, with one entry per line
Lists(resp, rows) ==
    IF rows = {} THEN resp = NoReservationsFound
    ELSE /\ resp.type = INFO
         /\ "reservations" \in DOMAIN resp
         /\ {resp.reservations[k].id : k \in DOMAIN resp.reservations}
              = IdsOf(rows)
         /\ Len(resp.reservations) = Cardinality(IdsOf(rows))
         /\ \A k \in DOMAIN resp.reservations :
              LET rk == resp.reservations[k]
              IN  /\ \A t \in LinesOf(rows, rk.id) :
                        t.account_name = rk.account_name
                  /\ \E all \in Orderings(LinesOf(rows, rk.id)) :
                        rk.entries =
                          [j \in DOMAIN all |->
                             MedicineEntry(all[j].medicine, all[j].count)]

\* resp answers /query-account?name=A on table tab: it lists every
\* reservation that has a line of account A, and every line of a reservation
\* it lists has account_name A
ListsAccount(resp, tab, A) ==
    /\ Lists(resp, {r \in tab : r.account_name = A})
    /\ "reservations" \in DOMAIN resp
       => \A k \in DOMAIN resp.reservations :
            /\ resp.reservations[k].account_name = A
            /\ \A t \in LinesOf(tab, resp.reservations[k].id) :
                  t.account_name = A

C17_WellFormed ==
    \A r, t \in reservation :
        (r.reservation_id = t.reservation_id /\ r # t)
        => /\ r.account_name = t.account_name
           /\ r.medicine # t.medicine

\* C18: a /reserve or /update whose entries name one medicine more than once
\* is answered ERROR and changes no count and no reservation line.
C18_DuplicateRejected ==
    \A h \in Handlers :
        (/\ pc[h] = "done"
         /\ kind[h] \in {"reserve", "update"}
         /\ alone[h]
         /\ ~faulted[h]
         /\ ~DistinctNames(item[h].entries))
        => /\ response[h].type = ERROR
           /\ writes[h] = 0
           /\ catalog = before[h].catalog
           /\ reservation = before[h].reservation

\* the reservation ids of the lines of a table
ReservationIds(tab) == {r.reservation_id : r \in tab}

\* the store held, when h's request arrived, a reservation of the same
\* account and the same entries: h's request repeats an earlier one
Repeats(h) ==
    \E rid \in ReservationIds(before[h].reservation) :
        /\ \A r \in reservation_select(before[h].reservation, rid) :
              r.account_name = item[h].account_name
        /\ \E all \in Orderings(reservation_select(before[h].reservation,
                                                   rid)) :
              [k \in DOMAIN all |-> MedicineEntry(all[k].medicine,
                                                  all[k].count)]
                = item[h].entries

\* C19: every /reserve answered INFO returns an id that no reservation in
\* the store had and that no other /reserve returned; a request that repeats
\* an earlier successful one leaves the earlier reservation in place,
\* creates its own lines under the new id and lowers the counts again.
C19_NotIdempotent ==
    \A h \in Handlers :
        (/\ pc[h] = "done" /\ kind[h] = "reserve" /\ ~faulted[h]
         /\ response[h].type = INFO)
        => /\ response[h] = ReservedSuccessfully(reservation_id[h])
           /\ reservation_id[h] \notin ReservationIds(before[h].reservation)
           /\ \A g \in Handlers \ {h} :
                (pc[g] = "done" /\ kind[g] = "reserve")
                => reservation_id[g] # reservation_id[h]
           /\ (alone[h] /\ Repeats(h))
              => /\ before[h].reservation \subseteq reservation
                 /\ Cardinality(NewLines(h)) = Len(item[h].entries)
                 /\ \A r \in NewLines(h) :
                        r.reservation_id = reservation_id[h]
                 /\ \A k \in DOMAIN item[h].entries :
                        catalog[item[h].entries[k].name]
                          < before[h].catalog[item[h].entries[k].name]

\* C19 witness: a /reserve that repeats an earlier one has been answered
\* INFO.
C19_Witness ==
    \E h \in Handlers :
        /\ pc[h] = "done" /\ kind[h] = "reserve" /\ ~faulted[h]
        /\ response[h].type = INFO
        /\ alone[h]
        /\ Len(item[h].entries) > 0
        /\ Repeats(h)

\* C20: every /reserve and /update ends with a ResponseItem of type info,
\* error or exception: a fault raised by a store operation of the workflow
\* is turned into a response and never leaves the handler.
C20_TypedResponse ==
    \A h \in Handlers :
        (pc[h] = "done" /\ kind[h] \in {"reserve", "update"})
        => response[h].type \in {INFO, ERROR, EXCEPTION}

(***************************************************************************)
(* Properties of the read-only routes.                                      *)
(***************************************************************************)
\* C21: /medicine?name=n is answered with type INFO for every n: with the
\* catalog row as a key/value object when n is in the catalog, with a null
\* medicine when it is not; no fault leaves the handler.  Stated for requests
\* whose store read did not raise.
C21_MedicineInfo ==
    \A h \in Handlers :
        (pc[h] = "done" /\ kind[h] = "medicine" /\ ~faulted[h])
        => /\ response[h].type = INFO
           /\ "medicine" \in DOMAIN response[h]
           /\ IF item[h].name \in DOMAIN catalog
              THEN response[h].medicine =
                     [name |-> item[h].name, count |-> catalog[item[h].name]]
              ELSE response[h].medicine = None

\* the read-only handlers run to their response: each is a task of the event
\* loop (or of the thread pool) that is scheduled while it can take a step
FairListing ==
    \A h \in Handlers :
        /\ WF_vars(query_account(h))
        /\ WF_vars(query_all(h))
        /\ WF_vars(MedicineRetrieve(h))

\* only read-only requests arrive, at a server started on an empty
\* reservation table, and every handler is scheduled
SpecReadOnly == Init /\ [][NextListing]_vars /\ FairListing

\* handler h has answered a read-only request whose store read did not raise
ReadAnswered(h) ==
    /\ pc[h] = "done"
    /\ kind[h] \in {"query-account", "query-all", "medicine"}
    /\ ~faulted[h]

\* C22: read-only requests (/query-account, /query-all, /medicine) issued
\* concurrently are each eventually answered, none fails (each gets a typed
\* response), and no step changes a catalog row or a reservation line.
C22_ReadOnly ==
    /\ [](\A h \in Handlers :
            ReadAnswered(h) => response[h].type \in {INFO, ERROR})
    /\ [][store' = store]_vars
    /\ \A h \in Handlers : (pc[h] = "retrieve") ~> (pc[h] = "done")

\* the same for /medicine requests that name a medicine of the catalog
C22_ReadOnlyExisting ==
    /\ [](\A h \in Handlers :
            (/\ ReadAnswered(h)
             /\ kind[h] = "medicine" => item[h].name \in DOMAIN catalog)
            => response[h].type \in {INFO, ERROR})
    /\ [][store' = store]_vars
    /\ \A h \in Handlers : (pc[h] = "retrieve") ~> (pc[h] = "done")

(***************************************************************************)
(* Properties of the conditional updates of a workflow.                     *)
(***************************************************************************)
\* handler h executes the conditional update of its current entry in this
\* step, without a store fault, and the update is not applied: the count of
\* the medicine is no longer the count the workflow read (another request
\* changed it: the entries of h name pairwise distinct medicines)
LosesRace(h) ==
    /\ pc[h] = "cas"
    /\ kind[h] = "reserve"
    /\ DistinctNames(item[h].entries)
    /\ writes'[h] = writes[h] + 1
    /\ faulted'[h] = faulted[h]
    /\ catalog[item[h].entries[i[h]].name] # current_counts[h][i[h]][1]

\* C23: when the conditional update of an entry of /reserve is not applied
\* (lost race), the workflow ends there with ERROR and inserts no reservation
\* line (and restores the counts of the earlier entries it had lowered: the
\* formula states the response and the end of the workflow).
C23_LostRace ==
    [][\A h \in Handlers :
          LosesRace(h)
          => /\ pc'[h] = "done"
             /\ response'[h].type = ERROR
             /\ reservation' = reservation]_vars

\* C24: when the conditional update of entry i of /reserve raises, the
\* response is EXCEPTION, no reservation line is inserted and the counts of
\* the entries before i are as they were before the request.  Stated for a
\* request of pairwise distinct names that ran with no other request in
\* flight.
C24_FaultInCasLoop ==
    \A h \in Handlers :
        (/\ pc[h] = "done" /\ kind[h] = "reserve" /\ alone[h]
         /\ DistinctNames(item[h].entries)
         /\ faulted[h]
         /\ pending[h] = {}
         /\ reservation_id[h] = 0)
        => /\ response[h] = AnExceptionOccurred
           /\ reservation = before[h].reservation
           /\ catalog = before[h].catalog

\* C25: /update accepts an entry whose count is limit = current count +
\* units the reservation held of that medicine, rejects limit + 1 with ERROR,
\* and a rejected /update, whatever the position of the rejected entry,
\* leaves every count and every line of the reservation as before.  Stated
\* for an update of pairwise distinct names of the catalog, of a reservation
\* of pairwise distinct medicines, that ran with no other request in flight.
C25_UpdateLimit ==
    \A h \in Handlers :
        (/\ UpdatedAlone(h)
         /\ DistinctNames(item[h].entries)
         /\ EntryNames(item[h].entries) \subseteq DOMAIN catalog
         /\ IsUuidStr(item[h].id)
         /\ DistinctLines(before[h].reservation, UUID(item[h].id))
         /\ reservation_select(before[h].reservation, UUID(item[h].id)) # {})
        => /\ (/\ Len(item[h].entries) = 1
               /\ item[h].entries[1].name \in DOMAIN catalog)
              => LET medicine == item[h].entries[1]
                     limit == before[h].catalog[medicine.name]
                              + Held(before[h].reservation, UUID(item[h].id),
                                     medicine.name)
                 IN  /\ medicine.count = limit => response[h].type = INFO
                     /\ medicine.count = limit + 1
                          => response[h].type = ERROR
           /\ response[h].type = ERROR
              => /\ catalog = before[h].catalog
                 /\ reservation = before[h].reservation

\* C26: every reservation line in the store has count >= 1 in every
\* reachable state: an entry with count <= 0 never results in a stored line
\* and never raises a catalog count.
C26_PositiveLines ==
    /\ \A r \in reservation : r.count >= 1
    /\ \A h \in Handlers :
         ReservedAlone(h)
         => \A k \in DOMAIN item[h].entries :
              (/\ item[h].entries[k].count <= 0
               /\ item[h].entries[k].name \in DOMAIN catalog)
              => catalog[item[h].entries[k].name]
                   <= before[h].catalog[item[h].entries[k].name]

(***************************************************************************)
(* Consistency levels of the statements.                                    *)
(***************************************************************************)
\* ConsistencyLevel.ALL, and a statement whose consistency_level was never
\* assigned (it runs at the default level of the session)
ALL == "ALL"
Unset == "unset"

\* the consistency level of the statement a handler of route k issues at
\* position p of its workflow
consistency_level(k, p) ==
    CASE p = "counts" -> ALL
      [] k = "reserve" /\ p = "cas" -> ALL
      [] k = "reserve" /\ p = "insert" -> ALL
      [] OTHER -> Unset

\* the store operations that take part in the reservation logic: the count
\* reads, the read of the existing reservation in /update and the
\* conditional updates of /reserve and /update
Participates(k, p) ==
    \/ k \in {"reserve", "update"} /\ p \in {"counts", "cas"}
    \/ k = "update" /\ p = "retrieve"

\* C27: every store operation that takes part in the reservation logic (each
\* count read, each read of the existing reservation in /update, each
\* conditional update of /reserve and /update) is issued at consistency
\* level ALL.
C27_ConsistencyAll ==
    \A h \in Handlers :
        Participates(kind[h], pc[h])
        => consistency_level(kind[h], pc[h]) = ALL

(***************************************************************************)
(* Order of the store operations of one workflow.                           *)
(***************************************************************************)
\* where each /reserve or /update workflow stands: no write before the count
\* reads have all returned; the conditional update of entry i is the next
\* write once those of the entries before i have completed; the delete and
\* the inserts come after the conditional updates of all the entries
SequencedState ==
    \A h \in Handlers :
        kind[h] \in {"reserve", "update"}
        => /\ pc[h] \in {"retrieve", "counts"} => writes[h] = 0
           /\ pc[h] = "cas"
              => /\ pending[h] = {}
                 /\ \A k \in DOMAIN current_counts[h] :
                        item[h].entries[k].name \in DOMAIN catalog
                        => current_counts[h][k] # None
                 /\ writes[h] = i[h] - 1
           /\ pc[h] \in {"delete", "insert"}
              => /\ pending[h] = {}
                 /\ writes[h] >= Len(item[h].entries)

\* what a step may write: a count changes only by the conditional update of
\* the current entry of a workflow, and only the count of that entry's
\* medicine; a reservation line changes only by a workflow that has completed
\* the conditional updates of all its entries
SequencedStep ==
    /\ catalog' # catalog
       => \E h \in Handlers :
            /\ pc[h] = "cas"
            /\ pending[h] = {}
            /\ writes[h] = i[h] - 1
            /\ writes'[h] = writes[h] + 1
            /\ \A m \in DOMAIN catalog :
                  m # item[h].entries[i[h]].name => catalog'[m] = catalog[m]
    /\ reservation' # reservation
       => \E h \in Handlers :
            /\ pc[h] \in {"delete", "insert"}
            /\ writes[h] >= Len(item[h].entries)
            /\ writes'[h] = writes[h] + 1

\* C28: within one /reserve or /update workflow the conditional updates are
\* issued one at a time in entry order: the one of entry i+1 only after the
\* one of entry i has completed, none before all the count reads have
\* returned, and no reservation line is written before the last conditional
\* update has completed.
C28_Sequential == []SequencedState /\ [][SequencedStep]_vars

\* C28 witness: a workflow of two entries has completed both conditional
\* updates, in the order of its entries, and has written its first line.
C28_Witness ==
    \E h \in Handlers :
        /\ kind[h] \in {"reserve", "update"}
        /\ pc[h] = "insert"
        /\ Len(item[h].entries) = 2
        /\ i[h] = 2
        /\ \A k \in 1..2 :
              catalog[item[h].entries[k].name]
                < before[h].catalog[item[h].entries[k].name]

(***************************************************************************)
(* Workflows that stop half way.                                            *)
(***************************************************************************)
\* handler h ran a /reserve of pairwise distinct names with no other request
\* in flight and stopped after at least one conditional update and before any
\* of its lines was inserted; no request has arrived since, so the server is
\* at rest
StoppedBeforeInsert(h) ==
    /\ pc[h] = "done"
    /\ kind[h] = "reserve"
    /\ response[h] = Cancelled
    /\ alone[h]
    /\ ~faulted[h]
    /\ DistinctNames(item[h].entries)
    /\ writes[h] >= 1
    /\ NewLines(h) = {}

\* C29: a /reserve handler that is cancelled or stops after at least one
\* conditional update was applied and before its reservation lines are
\* inserted leaves no orphaned decrement: once the server is at rest, count +
\* reserved units of every medicine is what it was before the request.
C29_NoOrphanedDecrement ==
    \A h \in Handlers :
        StoppedBeforeInsert(h)
        => \A m \in DOMAIN catalog :
             catalog[m] + Reserved(reservation, m)
               = before[h].catalog[m] + Reserved(before[h].reservation, m)

(***************************************************************************)
(* The window of /update between its delete and its inserts.                *)
(***************************************************************************)
\* the update run by u replaces reservation id, which had lines when the
\* request arrived; its delete is done and none of its inserts is
InWindow(u, id) ==
    /\ kind[u] = "update"
    /\ pc[u] = "insert"
    /\ i[u] = 1
    /\ IsUuidStr(id)
    /\ reservation_id[u] = UUID(id)
    /\ reservation_select(before[u].reservation, UUID(id)) # {}

\* the /query run by q reads the reservation table in this step
QueryReads(q) ==
    /\ kind[q] = "query"
    /\ pc[q] = "retrieve"
    /\ pc'[q] = "done"
    /\ faulted' = faulted

\* C30: a /query?id=R whose read falls between the delete and the first
\* insert of an /update of the existing reservation R answers ERROR "No such
\* reservation"; the interleaving is reachable, and R has lines before the
\* update and again after it.
C30_VisibilityWindow ==
    [][\A q, u \in Handlers :
          (q # u /\ InWindow(u, item[q].id) /\ QueryReads(q))
          => response'[q] = NoSuchReservation]_vars

\* the query was answered "No such reservation" for R while the update of R
\* was the only request that could have removed its lines; the update has
\* since answered INFO, R had lines before it and has lines after it
C30_Witness ==
    \E q, u \in Handlers :
        /\ q # u
        /\ kind[q] = "query" /\ pc[q] = "done"
        /\ response[q] = NoSuchReservation
        /\ ~faulted[q] /\ ~faulted[u]
        /\ kind[u] = "update" /\ pc[u] = "done"
        /\ response[u].type = INFO
        /\ reservation_id[u] = UUID(item[q].id)
        /\ reservation_select(before[u].reservation, reservation_id[u]) # {}
        /\ reservation_select(before[q].reservation, reservation_id[u]) = {}
        /\ reservation_select(reservation, reservation_id[u]) # {}

(***************************************************************************)
(* Grouping of the listing routes.                                          *)
(***************************************************************************)
\* the reservation objects `reservations` are the rows `rows` grouped by
\* reservation_id: one object per id, holding as many entries as the id has
\* rows, under an account name of these rows
GroupedById(reservations, rows) ==
    /\ Len(reservations) = Cardinality({r.reservation_id : r \in rows})
    /\ \A rid \in {r.reservation_id : r \in rows} :
         \E g \in DOMAIN reservations :
            /\ reservations[g].id = UuidStr(rid)
            /\ Len(reservations[g].entries)
                 = Cardinality(reservation_select(rows, rid))
            /\ \A r \in reservation_select(rows, rid) :
                 /\ Occurrences(reservations[g].entries,
                                MedicineEntry(r.medicine, r.count)) >= 1
                 /\ reservations[g].account_name = r.account_name

\* C31: the answer of /query-account and /query-all holds exactly one
\* reservation object per distinct reservation_id among the selected rows,
\* with all the rows of that id and their account name, in whatever order the
\* rows come back, the rows of one reservation adjacent or not (on stores
\* where no reservation names a medicine twice).
C31_Grouping ==
    \A h \in Handlers :
        (/\ pc[h] = "done"
         /\ kind[h] \in {"query-account", "query-all"}
         /\ ~faulted[h]
         /\ \A r \in reservation : DistinctLines(reservation, r.reservation_id)
         /\ response[h].type = INFO)
        => GroupedById(response[h].reservations, Selected(h))

(***************************************************************************)
(* get_current_counts.                                                      *)
(***************************************************************************)
\* workflow h issued its count reads with no other request in flight (the
\* catalog is the one its request found) and none of its reads raised
ReadingAlone(h) ==
    /\ kind[h] \in {"reserve", "update"}
    /\ pc[h] \in {"counts", "cas"}
    /\ i[h] = 1
    /\ alone[h]
    /\ ~faulted[h]

\* C32: get_current_counts returns one result per entry, in entry order:
\* result k is the count of the medicine of entry k, or None when the catalog
\* has no such medicine, in whatever order the reads complete.
C32_CountsInOrder ==
    \A h \in Handlers :
        ReadingAlone(h)
        => /\ Len(current_counts[h]) = Len(item[h].entries)
           /\ \A k \in DOMAIN item[h].entries :
                k \notin pending[h]
                => current_counts[h][k]
                     = CountOf(medicine_select_count(before[h].catalog,
                                                     item[h].entries[k].name))

\* the read of the second entry has completed and the read of the first has
\* not; the two medicines differ in what the catalog holds for them
C32_Witness ==
    \E h \in Handlers :
        /\ ReadingAlone(h)
        /\ Len(item[h].entries) = 2
        /\ pending[h] = {1}
        /\ CountOf(medicine_select_count(catalog, item[h].entries[1].name))
             # CountOf(medicine_select_count(catalog,
                                             item[h].entries[2].name))

(***************************************************************************)
(* GET /clean.                                                              *)
(***************************************************************************)
\* a /clean that ran with no other request in flight has answered INFO
CleanedAlone(h) ==
    /\ pc[h] = "done"
    /\ kind[h] = "clean"
    /\ alone[h]
    /\ response[h].type = INFO

\* after an INFO answer the configured keyspace exists with empty tables
CleanedEmpty ==
    \A h \in Handlers :
        CleanedAlone(h)
        => /\ keyspace \in keyspaces
           /\ catalog = NoRows
           /\ reservation = {}

\* C33: whatever keyspace name the server is configured with, once /clean
\* has answered INFO that keyspace exists and its medicine and reservation
\* tables are empty, and no step of /clean changes any other keyspace.
C33_CleanConfigured ==
    /\ []CleanedEmpty
    /\ [][keyspaces' \ {keyspace} = keyspaces \ {keyspace}]_vars

\* the same for a server configured with the keyspace the route names
C33_CleanMedicines ==
    /\ [](keyspace = medicines => CleanedEmpty)
    /\ [][keyspace = medicines
          => keyspaces' \ {keyspace} = keyspaces \ {keyspace}]_vars

(***************************************************************************)
(* Conservation under concurrent updates.                                   *)
(***************************************************************************)
\* the update run by u has ended without a fault; it replaced an existing
\* reservation by entries naming the medicines the reservation held, each once
UpdatedSameNames(u) ==
    /\ pc[u] = "done"
    /\ kind[u] = "update"
    /\ ~faulted[u]
    /\ IsUuidStr(item[u].id)
    /\ reservation_select(before[u].reservation, UUID(item[u].id)) # {}
    /\ DistinctLines(before[u].reservation, UUID(item[u].id))
    /\ DistinctNames(item[u].entries)
    /\ EntryNames(item[u].entries)
         = HeldNames(before[u].reservation, UUID(item[u].id))

\* C34: when two /update requests of the same reservation, arrived on the
\* same store and naming the medicines the reservation held, have both
\* ended, count + reserved units of every medicine is what it was when they
\* arrived.
C34_UpdatesConserve ==
    \A u, v \in Handlers :
        (/\ u # v
         /\ UpdatedSameNames(u)
         /\ UpdatedSameNames(v)
         /\ item[u].id = item[v].id
         /\ before[u] = before[v])
        => \A m \in DOMAIN catalog :
             catalog[m] + Reserved(reservation, m)
               = before[u].catalog[m] + Reserved(before[u].reservation, m)

(***************************************************************************)
(* What a /query sees of a reservation that an /update is replacing.        *)
(***************************************************************************)
\* the names of the entries of a reservation response
ResponseNames(r) == {r.entries[k].name : k \in DOMAIN r.entries}

\* C35: a /query?id=R running beside an /update of R answers the complete
\* old lines of R, lines for every entry of the update, or ERROR "No such
\* reservation"; never lines for some of the update's entries only.
C35_NoPartialRead ==
    \A q, u \in Handlers :
        (/\ q # u
         /\ kind[q] = "query" /\ pc[q] = "done" /\ ~faulted[q]
         /\ kind[u] = "update" /\ ~faulted[u]
         /\ item[q].id = item[u].id
         /\ IsUuidStr(item[u].id)
         /\ reservation_select(before[u].reservation, UUID(item[u].id)) # {}
         /\ DistinctNames(item[u].entries))
        => \/ response[q] = NoSuchReservation
           \/ response[q] \in query(before[u].reservation, item[u].id)
           \/ /\ response[q].type = INFO
              /\ Len(response[q].entries) = Len(item[u].entries)
              /\ ResponseNames(response[q]) = EntryNames(item[u].entries)

(***************************************************************************)
(* The bulk upload.                                                         *)
(***************************************************************************)
Uploading == bulk # NoUpload

Returned == Uploading /\ bulk.main = "returned"

\* C36: for every dataset size n >= 0, the empty dataset and sizes below the
\* window included, an upload whose threads keep running and whose inserts
\* all call back sets the event and returns.
C36_UploadReturns == Uploading ~> Returned

\* a call of insert_next ended in the ValueError of a generator entered twice
Raced == Uploading /\ (bulk.main = "raised" \/ bulk.dropped > 0)

\* the same for datasets of at least one row, as long as no two calls meet in
\* next(data_it)
C36_NonEmptyReturns ==
    (Uploading /\ bulk.num_queries >= 1) ~> (Returned \/ Raced)

\* C37: in every interleaving of the callbacks, the event is set only when
\* each of the n rows has been submitted exactly once and all n inserts have
\* called back, with success or with a logged error; upload returns only
\* after the event is set; never more inserts are in flight than the window.
C37_UploadComplete ==
    Uploading
    => /\ bulk.event
          => /\ \A r \in 1..bulk.num_queries : bulk.submitted[r] = 1
             /\ bulk.completed = bulk.num_queries
             /\ bulk.in_flight = 0
       /\ bulk.main = "returned" => bulk.event
       /\ bulk.in_flight <= Window

\* upload has returned from a dataset larger than the window; the window was
\* full at some time and an insert failed
C37_Witness ==
    /\ Returned
    /\ bulk.num_queries > Window
    /\ bulk.peak = Window
    /\ bulk.errors > 0
    /\ bulk.completed = bulk.num_queries

====
